---------------------------- MODULE Spec2Model ----------------------------
(***************************************************************************)
(* Grid physics and game-state engine of the boulder-dash clone (class     *)
(* Game).  The Game object's fields are the variables; one action per      *)
(* event the browser delivers: a keydown (handleInput) or an animation     *)
(* frame (gameLoop).  Handlers are written as operators on a record `s'    *)
(* holding the fields, so that a handler's calls compose as in the source. *)
(***************************************************************************)
EXTENDS Integers, Sequences, FiniteSets

\* ------------------------------------------------------------------ sizes
\* The level dimensions, the viewport and the two timer constants (seconds)
\* are scaled down (source: 100 x 60, 32 x 20, 300, 60); the code is the
\* same for every size.
GRID_WIDTH == 7
GRID_HEIGHT == 6
VIEWPORT_WIDTH == 5
VIEWPORT_HEIGHT == 5
TIME_LIMIT == 4
TIME_WARNING_THRESHOLD == 2
\* The diamond quota is the field DIAMONDS_REQUIRED of the Game object
\* (source: 25): DiamondQuota in every run but the quota runs, which are
\* the runs of a Game whose field is LargeQuota.
DiamondQuota == 1
LargeQuota == 2
\* Frames are delivered until MaxFrames frame periods have passed.
MaxFrames == 2
\* Keydown events are delivered until MaxKeys of them have been handled.
MaxKeys == 7

\* ------------------------------------------------------- program constants
ANIM_FRAME_DURATION == 150
PHYSICS_UPDATE_INTERVAL == 225
POINTS_PER_DIAMOND == 100
EXPLOSION_DURATION == 50
\* the initial value of the field explosionMaxRadius, never assigned again
explosionMaxRadius == 3
\* The frames of the model arrive FramePeriod ms after the last reading of
\* the clock and their callbacks read the clock at their timestamps, unless
\* said otherwise; a keydown arrives between two frames, some KeyLags ms
\* after the last reading.
FramePeriod == 225
KeyLags == {0, 75}
MaxTime == MaxFrames * FramePeriod
\* The frames of a session arrive SessionFramePeriod ms apart, until
\* MaxSessionFrames of them have been delivered; at most MaxSessionKeys
\* keydown events are handled in a session.
SessionFramePeriod == 1000
MaxSessionFrames == 6
MaxSessionKeys == 8
MaxSessionTime == MaxSessionFrames * SessionFramePeriod
\* The frames of the timer runs arrive some TimerGaps ms apart, for
\* MaxTimerSeconds seconds; at most MaxTimerKeys keydown events are handled.
TimerGaps == {500, 1000}
MaxTimerSeconds == 5
MaxTimerKeys == 2
MaxTimerTime == MaxTimerSeconds * 1000

\* the grid calls: how many, and how far outside the grid they reach
MaxGridCalls == 1
GridMargin == 1

\* the explosion runs: frames BlastGaps ms apart up to MaxBlastTime ms
BlastGaps == {25, 75}
MaxBlastTime == 800
MaxBlastKeys == 1

\* the quota runs and the turn runs: the keydown events handled
MaxQuotaKeys == 6
MaxTurnKeys == 10

\* the restarts: frames RestartFramePeriod ms apart up to MaxRestartFrames
RestartFramePeriod == 1000
MaxRestartFrames == 7
MaxRestartKeys == 2
MaxRestartTime == MaxRestartFrames * RestartFramePeriod

\* the explosions run to their end: frames BlastGaps ms apart up to
\* MaxBurstTime ms; an explosion step comes at most ExplosionStepSpan ms
\* after the one before, when a frame 25 ms after it is followed by one
\* 75 ms later
MaxBurstTime == 900
MaxBurstKeys == 1
ExplosionStepSpan == 2 * EXPLOSION_DURATION
ExplosionSpan == 2 * explosionMaxRadius * ExplosionStepSpan

\* the physics runs: at most MaxPhysicsKeys arrow keys between the frames,
\* whose callbacks read the clock ClockLags ms after their timestamps; the
\* two readings of a key handler are ReadGaps ms apart
MaxPhysicsKeys == 4
ClockLags == {0, 75}
ReadGaps == {0, 1}

\* the play runs: at most MaxPlayKeys keydown events, handled at the
\* timestamps of the frames
MaxPlayKeys == 5

\* the countdowns run to their end: frames TimerGaps ms apart; a second is
\* counted at most 1500 ms after the one before, when a frame 500 ms after
\* it is followed by one 1000 ms later
MaxCountdownKeys == 1
MaxCountdownTime == TIME_LIMIT * (1000 + 500)

\* ------------------------------------------------------------------ tiles
EMPTY == "EMPTY"
DIRT == "DIRT"
BOULDER == "BOULDER"
DIAMOND == "DIAMOND"
WALL == "WALL"
EXIT == "EXIT"
TileType == {EMPTY, DIRT, BOULDER, DIAMOND, WALL, EXIT}

Abs(n) == IF n < 0 THEN -n ELSE n
Min(a, b) == IF a < b THEN a ELSE b
Max(a, b) == IF a > b THEN a ELSE b

\* ------------------------------------------------------------------- Grid
Cells == (0 .. GRID_WIDTH - 1) \X (0 .. GRID_HEIGHT - 1)

isInBounds(x, y) == x >= 0 /\ x < GRID_WIDTH /\ y >= 0 /\ y < GRID_HEIGHT

\* new Grid(width, height): every cell Empty
newGrid == [c \in Cells |-> EMPTY]

getTile(g, x, y) == IF isInBounds(x, y) THEN g[<<x, y>>] ELSE WALL

\* setTile writing an out-of-bounds call to the nearest cell of the grid
setTile_Clamped(g, x, y, t) ==
    [g EXCEPT ![<<Max(0, Min(x, GRID_WIDTH - 1)), Max(0, Min(y, GRID_HEIGHT - 1))>>] = t]

setTile(g, x, y, t) == IF isInBounds(x, y) THEN [g EXCEPT ![<<x, y>>] = t] ELSE g

\* ------------------------------------------------------------------ audio
\* The calls made on the SoundManager by the running handler, in order.
play(s, cue) == [s EXCEPT !.cues = Append(@, <<"play", cue>>)]
stop(s, cue) == [s EXCEPT !.cues = Append(@, <<"stop", cue>>)]
toggleMute(s) == [s EXCEPT !.cues = Append(@, <<"toggleMute", "">>)]

\* ----------------------------------------------------------------- camera

\* cameraX and cameraY are numbers of tiles that need not be whole: such a
\* number is held as the fraction <<n, d>>, d > 0, in lowest terms, and the
\* arithmetic on fractions is exact (the rounding of the doubles is left
\* out).
RECURSIVE GCD(_, _)
GCD(a, b) == IF b = 0 THEN a ELSE GCD(b, a % b)

Fraction(n, d) ==
    LET g == GCD(Abs(n), d)
    IN  <<n \div g, d \div g>>

Whole(k) == <<k, 1>>

\* a.n * (lcm / a.d) and b.n * (lcm / b.d): the two on their common denominator
OnCommon(a, b) ==
    LET g == GCD(a[2], b[2])
    IN  <<a[1] * (b[2] \div g), b[1] * (a[2] \div g), (a[2] \div g) * b[2]>>

FracPlus(a, b) ==
    LET c == OnCommon(a, b) IN Fraction(c[1] + c[2], c[3])
FracMinus(a, b) ==
    LET c == OnCommon(a, b) IN Fraction(c[1] - c[2], c[3])
FracTimes(a, b) ==
    LET x == Fraction(a[1], b[2])
        y == Fraction(b[1], a[2])
    IN  Fraction(x[1] * y[1], x[2] * y[2])
FracLess(a, b) ==
    LET c == OnCommon(a, b) IN c[1] < c[2]
FracAbs(a) == <<Abs(a[1]), a[2]>>
FracMin(a, b) == IF FracLess(b, a) THEN b ELSE a
FracMax(a, b) == IF FracLess(a, b) THEN b ELSE a

updateCameraPosition(s) ==
    LET cx == s.playerX - (VIEWPORT_WIDTH \div 2)
        cy == s.playerY - (VIEWPORT_HEIGHT \div 2)
    IN  [s EXCEPT !.cameraX = Whole(Max(0, Min(cx, GRID_WIDTH - VIEWPORT_WIDTH))),
                  !.cameraY = Whole(Max(0, Min(cy, GRID_HEIGHT - VIEWPORT_HEIGHT)))]

\* CAMERA_LERP_SPEED, per second
CAMERA_LERP_SPEED == 5
\* CAMERA_DEADZONE, 0.01 tile
CAMERA_DEADZONE == Fraction(1, 100)
\* Math.abs(d) > CAMERA_DEADZONE
OutsideDeadzone(d) == FracLess(CAMERA_DEADZONE, FracAbs(d))

\* updateCamera(deltaTime):
\* current += (target - current) * CAMERA_LERP_SPEED * (deltaTime / 1000),
\* clamped to the target and then to the map.
updateCamera(s, deltaTime) ==
    LET maxX == Whole(GRID_WIDTH - VIEWPORT_WIDTH)
        maxY == Whole(GRID_HEIGHT - VIEWPORT_HEIGHT)
        targetCameraX ==
            Whole(Max(0, Min(s.playerX - (VIEWPORT_WIDTH \div 2),
                             GRID_WIDTH - VIEWPORT_WIDTH)))
        targetCameraY ==
            Whole(Max(0, Min(s.playerY - (VIEWPORT_HEIGHT \div 2),
                             GRID_HEIGHT - VIEWPORT_HEIGHT)))
        dx == FracMinus(targetCameraX, s.cameraX)
        dy == FracMinus(targetCameraY, s.cameraY)
        moveSpeed == Fraction(CAMERA_LERP_SPEED * deltaTime, 1000)
        movedX == FracPlus(s.cameraX, FracTimes(dx, moveSpeed))
        movedY == FracPlus(s.cameraY, FracTimes(dy, moveSpeed))
        newX == IF FracLess(Whole(0), dx) THEN FracMin(movedX, targetCameraX)
                ELSE FracMax(movedX, targetCameraX)
        newY == IF FracLess(Whole(0), dy) THEN FracMin(movedY, targetCameraY)
                ELSE FracMax(movedY, targetCameraY)
    IN  IF OutsideDeadzone(dx) \/ OutsideDeadzone(dy)
        THEN [s EXCEPT !.cameraX = FracMax(Whole(0), FracMin(newX, maxX)),
                       !.cameraY = FracMax(Whole(0), FracMin(newY, maxY))]
        ELSE s

\* ------------------------------------------------------- level generation
\* One run of initializeLevel's random draws: the spawn cell (px, py), the
\* cells the dirt/boulder pass sets to Boulder (boulders), the cells it does
\* not write because both Math.random() tests fail (keep), and the cells
\* the diamond loop hits (diamonds).
Interior == (1 .. GRID_WIDTH - 2) \X (1 .. GRID_HEIGHT - 2)
InSpawnBox(o, x, y) == Abs(x - o.px) <= 1 /\ Abs(y - o.py) <= 1

\* the diamond loop runs ceil(DIAMONDS_REQUIRED * 1.5) times
DiamondDraws(s) == (3 * s.DIAMONDS_REQUIRED + 1) \div 2

IsOutcome(s, o) ==
    /\ o.px \in 2 .. GRID_WIDTH - 3
    /\ o.py \in 2 .. GRID_HEIGHT - 3
    /\ o.boulders \subseteq Interior
    /\ o.keep \subseteq Interior
    /\ o.boulders \cap o.keep = {}
    /\ o.diamonds \subseteq {c \in Interior : ~InSpawnBox(o, c[1], c[2])}
    /\ Cardinality(o.diamonds) \in 1 .. DiamondDraws(s)

\* The levels the model generates (a few of the generator's outcomes); a
\* cell named in neither boulders nor keep gets Dirt.
Layouts ==
    { [px |-> 2, py |-> 2, boulders |-> {<<5, 1>>}, keep |-> {<<4, 2>>},
       diamonds |-> {<<4, 1>>, <<4, 3>>}],
      [px |-> 4, py |-> 2, boulders |-> {<<2, 1>>, <<2, 3>>},
       keep |-> {<<2, 2>>, <<1, 3>>}, diamonds |-> {<<1, 1>>}] }

Outcomes(s) == {o \in Layouts : IsOutcome(s, o)}

FillTile(o, c, old) ==
    IF c \in o.boulders THEN BOULDER ELSE IF c \in o.keep THEN old ELSE DIRT

initializeLevel(s, o) ==
    LET walled == [c \in Cells |->
                     IF c[1] = 0 \/ c[1] = GRID_WIDTH - 1
                        \/ c[2] = 0 \/ c[2] = GRID_HEIGHT - 1
                     THEN WALL ELSE s.grid[c]]
        filled == [c \in Cells |->
                     IF c \in Interior /\ ~InSpawnBox(o, c[1], c[2])
                     THEN FillTile(o, c, walled[c]) ELSE walled[c]]
        gems   == [c \in Cells |-> IF c \in o.diamonds THEN DIAMOND ELSE filled[c]]
        clear  == [c \in Cells |->
                     IF InSpawnBox(o, c[1], c[2]) THEN EMPTY ELSE gems[c]]
    IN  [updateCameraPosition([s EXCEPT !.playerX = o.px, !.playerY = o.py])
            EXCEPT !.grid = clear]

\* --------------------------------------------------------------- movement
\* canMoveTo accepting a Wall
canMoveTo_ThroughWalls(g, x, y) ==
    LET tile == getTile(g, x, y)
    IN  tile = EMPTY \/ tile = DIRT \/ tile = DIAMOND \/ tile = EXIT \/ tile = WALL

canMoveTo(g, x, y) ==
    LET tile == getTile(g, x, y)
    IN  tile = EMPTY \/ tile = DIRT \/ tile = DIAMOND \/ tile = EXIT

tryPushBoulder(s, x, y, direction) ==
    LET nextX == x + direction
    IN  IF getTile(s.grid, x, y) = BOULDER /\ getTile(s.grid, nextX, y) = EMPTY
        THEN play([s EXCEPT !.grid = setTile(setTile(@, x, y, EMPTY), nextX, y, BOULDER)],
                  "boulder")
        ELSE s

\* the exclusion box one cell smaller
ExitCandidates_Box1(s) ==
    {c \in (2 .. GRID_WIDTH - 3) \X (2 .. GRID_HEIGHT - 3) :
        ~ \/ (Abs(c[1] - s.playerX) <= 1 /\ Abs(c[2] - s.playerY) <= 1)
          \/ getTile(s.grid, c[1], c[2] - 1) = BOULDER}

\* The cells on which revealExit's do-while loop can stop.
ExitCandidates(s) ==
    {c \in (2 .. GRID_WIDTH - 3) \X (2 .. GRID_HEIGHT - 3) :
        ~ \/ (Abs(c[1] - s.playerX) <= 2 /\ Abs(c[2] - s.playerY) <= 2)
          \/ getTile(s.grid, c[1], c[2] - 1) = BOULDER}

\* The set of results: one per cell the loop can stop on (none: it never stops).
revealExit(s, t) ==
    { play([s EXCEPT !.exitX = c[1], !.exitY = c[2],
                     !.exitRevealed = TRUE,
                     !.exitAppearTime = t,
                     !.grid = setTile(@, c[1], c[2], EXIT)], "portal")
      : c \in ExitCandidates(s) }

\* collectDiamond without the increment of diamondsCollected
collectDiamond_NoCount(s, t) ==
    LET s1 == [s EXCEPT !.score = @ + POINTS_PER_DIAMOND]
    IN  IF s1.diamondsCollected >= s1.DIAMONDS_REQUIRED /\ ~s1.exitRevealed
        THEN {play(r, "diamond") : r \in revealExit(s1, t)}
        ELSE {s1}

\* collectDiamond comparing with > instead of >=
collectDiamond_Late(s, t) ==
    LET s1 == [s EXCEPT !.score = @ + POINTS_PER_DIAMOND,
                        !.diamondsCollected = @ + 1]
    IN  IF s1.diamondsCollected > s1.DIAMONDS_REQUIRED /\ ~s1.exitRevealed
        THEN {play(r, "diamond") : r \in revealExit(s1, t)}
        ELSE {s1}

\* collectDiamond without the test of the count against the quota
collectDiamond_NoQuota(s, t) ==
    LET s1 == [s EXCEPT !.score = @ + POINTS_PER_DIAMOND,
                        !.diamondsCollected = @ + 1]
    IN  IF ~s1.exitRevealed
        THEN {play(r, "diamond") : r \in revealExit(s1, t)}
        ELSE {s1}

\* collectDiamond without the test of exitRevealed
collectDiamond_Again(s, t) ==
    LET s1 == [s EXCEPT !.score = @ + POINTS_PER_DIAMOND,
                        !.diamondsCollected = @ + 1]
    IN  IF s1.diamondsCollected >= s1.DIAMONDS_REQUIRED
        THEN {play(r, "diamond") : r \in revealExit(s1, t)}
        ELSE {s1}

collectDiamond(s, t) ==
    LET s1 == [s EXCEPT !.score = @ + POINTS_PER_DIAMOND,
                        !.diamondsCollected = @ + 1]
    IN  IF s1.diamondsCollected >= s1.DIAMONDS_REQUIRED /\ ~s1.exitRevealed
        THEN {play(r, "diamond") : r \in revealExit(s1, t)}
        ELSE {s1}

\* resetGame without the clearing of gameOver and gameWon
resetGame_KeepsFlags(s) ==
    LET s1 == stop(s, "timeWarning")
        s2 == [s1 EXCEPT !.grid = setTile(@, s1.playerX, s1.playerY, EMPTY),
                         !.score = 0,
                         !.diamondsCollected = 0,
                         !.playerX = 1,
                         !.playerY = 1,
                         !.playerAnimFrame = 0,
                         !.playerFacingLeft = FALSE,
                         !.lastAnimUpdate = 0,
                         !.lastPhysicsUpdate = 0,
                         !.lastPlayerMoveTime = 0,
                         !.lastTime = 0,
                         !.timeRemaining = TIME_LIMIT,
                         !.isTimeWarning = FALSE,
                         !.lastTimeUpdate = 0,
                         !.exitRevealed = FALSE,
                         !.exitX = -1,
                         !.exitY = -1,
                         !.exitAppearTime = 0]
    IN  {initializeLevel(s2, o) : o \in Outcomes(s2)}

resetGame(s) ==
    LET s1 == stop(s, "timeWarning")
        s2 == [s1 EXCEPT !.grid = setTile(@, s1.playerX, s1.playerY, EMPTY),
                         !.score = 0,
                         !.diamondsCollected = 0,
                         !.gameOver = FALSE,
                         !.gameWon = FALSE,
                         !.playerX = 1,
                         !.playerY = 1,
                         !.playerAnimFrame = 0,
                         !.playerFacingLeft = FALSE,
                         !.lastAnimUpdate = 0,
                         !.lastPhysicsUpdate = 0,
                         !.lastPlayerMoveTime = 0,
                         !.lastTime = 0,
                         !.timeRemaining = TIME_LIMIT,
                         !.isTimeWarning = FALSE,
                         !.lastTimeUpdate = 0,
                         !.exitRevealed = FALSE,
                         !.exitX = -1,
                         !.exitY = -1,
                         !.exitAppearTime = 0]
    IN  {initializeLevel(s2, o) : o \in Outcomes(s2)}

Arrows == {"ArrowLeft", "ArrowRight", "ArrowUp", "ArrowDown"}
\* the keys that mute and those that reset: the tests lower-case event.key
MuteKeys == {"m", "M"}
ResetKeys == {"r", "R"}

\* event.key.toLowerCase(), on the keys of the model
toLowerCase(key) ==
    CASE key = "M" -> "m"
      [] key = "R" -> "r"
      [] key = "ArrowLeft" -> "arrowleft"
      [] key = "ArrowRight" -> "arrowright"
      [] key = "ArrowUp" -> "arrowup"
      [] key = "ArrowDown" -> "arrowdown"
      [] key = "Other" -> "other"
      [] OTHER -> key

\* the switch on event.key
newX(s, key) ==
    CASE key = "ArrowLeft" -> s.playerX - 1
      [] key = "ArrowRight" -> s.playerX + 1
      [] OTHER -> s.playerX
newY(s, key) ==
    CASE key = "ArrowUp" -> s.playerY - 1
      [] key = "ArrowDown" -> s.playerY + 1
      [] OTHER -> s.playerY
Facing(s, key) ==
    CASE key = "ArrowLeft" -> TRUE
      [] key = "ArrowRight" -> FALSE
      [] OTHER -> s.playerFacingLeft

\* MoveTo without the call of updateCameraPosition
MoveTo_NoCamera(s, key, t) ==
    LET nx == newX(s, key)
        ny == newY(s, key)
        s1 == [s EXCEPT !.grid = setTile(@, nx, ny, EMPTY),
                        !.playerX = nx,
                        !.playerY = ny,
                        !.playerAnimFrame = (@ + 1) % 4,
                        !.lastPlayerMoveTime = t]
    IN  IF key = "ArrowLeft" \/ key = "ArrowRight"
        THEN tryPushBoulder(s1, nx, ny, IF key = "ArrowLeft" THEN -1 ELSE 1)
        ELSE s1

\* From "Clear the new position" to the end of handleInput.
MoveTo(s, key, t) ==
    LET nx == newX(s, key)
        ny == newY(s, key)
        s1 == [s EXCEPT !.grid = setTile(@, nx, ny, EMPTY),
                        !.playerX = nx,
                        !.playerY = ny,
                        !.playerAnimFrame = (@ + 1) % 4,
                        !.lastPlayerMoveTime = t]
        s2 == updateCameraPosition(s1)
    IN  IF key = "ArrowLeft" \/ key = "ArrowRight"
        THEN tryPushBoulder(s2, nx, ny, IF key = "ArrowLeft" THEN -1 ELSE 1)
        ELSE s2

\* handleInput without the return while the game is over or won
handleInput_NoEndCheck(s, key, t, u) ==
    IF toLowerCase(key) = "m" THEN {toggleMute(s)}
    ELSE IF toLowerCase(key) = "r" THEN resetGame(s)
    ELSE
      LET s1 == [s EXCEPT !.playerFacingLeft = Facing(s, key)]
          nx == newX(s, key)
          ny == newY(s, key)
          targetTile == getTile(s1.grid, nx, ny)
      IN  IF ~canMoveTo(s1.grid, nx, ny) THEN {s1}
          ELSE IF targetTile = DIAMOND
               THEN {MoveTo(play(r, "diamond"), key, u) : r \in collectDiamond(s1, t)}
          ELSE IF targetTile = DIRT
               THEN {MoveTo(play(s1, "walk"), key, u)}
          ELSE IF targetTile = EXIT /\ s1.exitRevealed
               THEN {play(stop([s1 EXCEPT !.gameWon = TRUE], "timeWarning"), "victory")}
          ELSE {MoveTo(s1, key, u)}

\* handleInput(event), the set of possible results: t is the reading of
\* performance.now() in revealExit, when the move reveals the exit, and u the
\* later one that lastPlayerMoveTime takes.
handleInput(s, key, t, u) ==
    IF toLowerCase(key) = "m" THEN {toggleMute(s)}
    ELSE IF toLowerCase(key) = "r" THEN resetGame(s)
    ELSE IF s.gameOver \/ s.gameWon THEN {s}
    ELSE
      LET s1 == [s EXCEPT !.playerFacingLeft = Facing(s, key)]
          nx == newX(s, key)
          ny == newY(s, key)
          targetTile == getTile(s1.grid, nx, ny)
      IN  IF ~canMoveTo(s1.grid, nx, ny) THEN {s1}
          ELSE IF targetTile = DIAMOND
               THEN {MoveTo(play(r, "diamond"), key, u) : r \in collectDiamond(s1, t)}
          ELSE IF targetTile = DIRT
               THEN {MoveTo(play(s1, "walk"), key, u)}
          ELSE IF targetTile = EXIT /\ s1.exitRevealed
               THEN {play(stop([s1 EXCEPT !.gameWon = TRUE], "timeWarning"), "victory")}
          ELSE {MoveTo(s1, key, u)}

\* -------------------------------------------------------------- explosion
\* startExplosion leaving the explosion origin as it was
startExplosion_StaleOrigin(s, t) ==
    IF ~s.gameOver
    THEN play([s EXCEPT !.gameOver = TRUE,
                        !.explosionRadius = 0,
                        !.explosionFrame = 0,
                        !.lastExplosionUpdate = t], "explosion")
    ELSE s

\* startExplosion without the test of gameOver
startExplosion_Restart(s, t) ==
    play([s EXCEPT !.gameOver = TRUE,
                   !.explosionRadius = 0,
                   !.explosionFrame = 0,
                   !.explosionX = s.playerX,
                   !.explosionY = s.playerY,
                   !.lastExplosionUpdate = t], "explosion")

startExplosion(s, t) ==
    IF ~s.gameOver
    THEN play([s EXCEPT !.gameOver = TRUE,
                        !.explosionRadius = 0,
                        !.explosionFrame = 0,
                        !.explosionX = s.playerX,
                        !.explosionY = s.playerY,
                        !.lastExplosionUpdate = t], "explosion")
    ELSE s

\* Math.sqrt(x*x + y*y) <= radius, on integers
WithinRadius(dx, dy, r) == dx * dx + dy * dy <= r * r

\* updateExplosion without the distance test: the whole square is cleared
updateExplosion_Square(s, timestamp) ==
    IF ~s.gameOver \/ s.explosionRadius >= explosionMaxRadius THEN s
    ELSE IF timestamp - s.lastExplosionUpdate >= EXPLOSION_DURATION
    THEN LET frame == s.explosionFrame + 1
             radius == frame \div 2
             cleared == [c \in Cells |->
                           IF /\ Abs(c[1] - s.explosionX) <= radius
                              /\ Abs(c[2] - s.explosionY) <= radius
                              /\ TRUE
                              /\ s.grid[c] # WALL
                           THEN EMPTY ELSE s.grid[c]]
         IN  [s EXCEPT !.explosionFrame = frame,
                       !.explosionRadius = radius,
                       !.lastExplosionUpdate = timestamp,
                       !.grid = IF radius < explosionMaxRadius THEN cleared ELSE @]
    ELSE s

\* updateExplosion without the wait of EXPLOSION_DURATION
updateExplosion_NoWait(s, timestamp) ==
    IF ~s.gameOver \/ s.explosionRadius >= explosionMaxRadius THEN s
    ELSE IF TRUE
    THEN LET frame == s.explosionFrame + 1
             radius == frame \div 2
             cleared == [c \in Cells |->
                           IF /\ Abs(c[1] - s.explosionX) <= radius
                              /\ Abs(c[2] - s.explosionY) <= radius
                              /\ WithinRadius(c[1] - s.explosionX, c[2] - s.explosionY, radius)
                              /\ s.grid[c] # WALL
                           THEN EMPTY ELSE s.grid[c]]
         IN  [s EXCEPT !.explosionFrame = frame,
                       !.explosionRadius = radius,
                       !.lastExplosionUpdate = timestamp,
                       !.grid = IF radius < explosionMaxRadius THEN cleared ELSE @]
    ELSE s

\* updateExplosion without the stop at the max radius
updateExplosion_NoStop(s, timestamp) ==
    IF ~s.gameOver THEN s
    ELSE IF timestamp - s.lastExplosionUpdate >= EXPLOSION_DURATION
    THEN LET frame == s.explosionFrame + 1
             radius == frame \div 2
             cleared == [c \in Cells |->
                           IF /\ Abs(c[1] - s.explosionX) <= radius
                              /\ Abs(c[2] - s.explosionY) <= radius
                              /\ WithinRadius(c[1] - s.explosionX, c[2] - s.explosionY, radius)
                              /\ s.grid[c] # WALL
                           THEN EMPTY ELSE s.grid[c]]
         IN  [s EXCEPT !.explosionFrame = frame,
                       !.explosionRadius = radius,
                       !.lastExplosionUpdate = timestamp,
                       !.grid = IF radius < explosionMaxRadius THEN cleared ELSE @]
    ELSE s

\* updateExplosion going dormant one radius early
updateExplosion_StopsEarly(s, timestamp) ==
    IF ~s.gameOver \/ s.explosionRadius >= explosionMaxRadius - 1 THEN s
    ELSE IF timestamp - s.lastExplosionUpdate >= EXPLOSION_DURATION
    THEN LET frame == s.explosionFrame + 1
             radius == frame \div 2
             cleared == [c \in Cells |->
                           IF /\ Abs(c[1] - s.explosionX) <= radius
                              /\ Abs(c[2] - s.explosionY) <= radius
                              /\ WithinRadius(c[1] - s.explosionX, c[2] - s.explosionY, radius)
                              /\ s.grid[c] # WALL
                           THEN EMPTY ELSE s.grid[c]]
         IN  [s EXCEPT !.explosionFrame = frame,
                       !.explosionRadius = radius,
                       !.lastExplosionUpdate = timestamp,
                       !.grid = IF radius < explosionMaxRadius THEN cleared ELSE @]
    ELSE s

updateExplosion(s, timestamp) ==
    IF ~s.gameOver \/ s.explosionRadius >= explosionMaxRadius THEN s
    ELSE IF timestamp - s.lastExplosionUpdate >= EXPLOSION_DURATION
    THEN LET frame == s.explosionFrame + 1
             radius == frame \div 2
             cleared == [c \in Cells |->
                           IF /\ Abs(c[1] - s.explosionX) <= radius
                              /\ Abs(c[2] - s.explosionY) <= radius
                              /\ WithinRadius(c[1] - s.explosionX, c[2] - s.explosionY, radius)
                              /\ s.grid[c] # WALL
                           THEN EMPTY ELSE s.grid[c]]
         IN  [s EXCEPT !.explosionFrame = frame,
                       !.explosionRadius = radius,
                       !.lastExplosionUpdate = timestamp,
                       !.grid = IF radius < explosionMaxRadius THEN cleared ELSE @]
    ELSE s

\* ------------------------------------------------------------------ timer
\* updateTime comparing with < instead of <= TIME_WARNING_THRESHOLD
updateTime_StrictThreshold(s, timestamp) ==
    IF s.gameOver \/ s.gameWon
    THEN IF s.isTimeWarning
         THEN [stop(s, "timeWarning") EXCEPT !.isTimeWarning = FALSE]
         ELSE s
    ELSE IF timestamp - s.lastTimeUpdate >= 1000
    THEN LET s1 == [s EXCEPT !.timeRemaining = @ - 1, !.lastTimeUpdate = timestamp]
             s2 == IF s1.timeRemaining < TIME_WARNING_THRESHOLD /\ ~s1.isTimeWarning
                   THEN play([s1 EXCEPT !.isTimeWarning = TRUE], "timeWarning")
                   ELSE s1
         IN  IF s2.timeRemaining <= 0
             THEN play([stop([s2 EXCEPT !.timeRemaining = 0, !.gameOver = TRUE],
                             "timeWarning")
                          EXCEPT !.isTimeWarning = FALSE], "explosion")
             ELSE s2
    ELSE s

\* updateTime without gameOver = true at expiry
updateTime_NoExpiry(s, timestamp) ==
    IF s.gameOver \/ s.gameWon
    THEN IF s.isTimeWarning
         THEN [stop(s, "timeWarning") EXCEPT !.isTimeWarning = FALSE]
         ELSE s
    ELSE IF timestamp - s.lastTimeUpdate >= 1000
    THEN LET s1 == [s EXCEPT !.timeRemaining = @ - 1, !.lastTimeUpdate = timestamp]
             s2 == IF s1.timeRemaining <= TIME_WARNING_THRESHOLD /\ ~s1.isTimeWarning
                   THEN play([s1 EXCEPT !.isTimeWarning = TRUE], "timeWarning")
                   ELSE s1
         IN  IF s2.timeRemaining <= 0
             THEN play([stop([s2 EXCEPT !.timeRemaining = 0],
                             "timeWarning")
                          EXCEPT !.isTimeWarning = FALSE], "explosion")
             ELSE s2
    ELSE s

\* updateTime counting on while the game is won
updateTime_NoFreeze(s, timestamp) ==
    IF s.gameOver
    THEN IF s.isTimeWarning
         THEN [stop(s, "timeWarning") EXCEPT !.isTimeWarning = FALSE]
         ELSE s
    ELSE IF timestamp - s.lastTimeUpdate >= 1000
    THEN LET s1 == [s EXCEPT !.timeRemaining = @ - 1, !.lastTimeUpdate = timestamp]
             s2 == IF s1.timeRemaining <= TIME_WARNING_THRESHOLD /\ ~s1.isTimeWarning
                   THEN play([s1 EXCEPT !.isTimeWarning = TRUE], "timeWarning")
                   ELSE s1
         IN  IF s2.timeRemaining <= 0
             THEN play([stop([s2 EXCEPT !.timeRemaining = 0, !.gameOver = TRUE],
                             "timeWarning")
                          EXCEPT !.isTimeWarning = FALSE], "explosion")
             ELSE s2
    ELSE s

\* updateTime restarting its second at every frame
updateTime_RestartsSecond(s, timestamp) ==
    IF s.gameOver \/ s.gameWon
    THEN IF s.isTimeWarning
         THEN [stop(s, "timeWarning") EXCEPT !.isTimeWarning = FALSE]
         ELSE s
    ELSE IF timestamp - s.lastTimeUpdate >= 1000
    THEN LET s1 == [s EXCEPT !.timeRemaining = @ - 1, !.lastTimeUpdate = timestamp]
             s2 == IF s1.timeRemaining <= TIME_WARNING_THRESHOLD /\ ~s1.isTimeWarning
                   THEN play([s1 EXCEPT !.isTimeWarning = TRUE], "timeWarning")
                   ELSE s1
         IN  IF s2.timeRemaining <= 0
             THEN play([stop([s2 EXCEPT !.timeRemaining = 0, !.gameOver = TRUE],
                             "timeWarning")
                          EXCEPT !.isTimeWarning = FALSE], "explosion")
             ELSE s2
    ELSE [s EXCEPT !.lastTimeUpdate = timestamp]

\* updateTime of a frame that counts a second, down to its test of the
\* remaining time: the state in which the expiry assigns gameOver
Counted(s, timestamp) ==
    LET s1 == [s EXCEPT !.timeRemaining = @ - 1, !.lastTimeUpdate = timestamp]
    IN  IF s1.timeRemaining <= TIME_WARNING_THRESHOLD /\ ~s1.isTimeWarning
        THEN play([s1 EXCEPT !.isTimeWarning = TRUE], "timeWarning")
        ELSE s1

updateTime(s, timestamp) ==
    IF s.gameOver \/ s.gameWon
    THEN IF s.isTimeWarning
         THEN [stop(s, "timeWarning") EXCEPT !.isTimeWarning = FALSE]
         ELSE s
    ELSE IF timestamp - s.lastTimeUpdate >= 1000
    THEN LET s1 == [s EXCEPT !.timeRemaining = @ - 1, !.lastTimeUpdate = timestamp]
             s2 == IF s1.timeRemaining <= TIME_WARNING_THRESHOLD /\ ~s1.isTimeWarning
                   THEN play([s1 EXCEPT !.isTimeWarning = TRUE], "timeWarning")
                   ELSE s1
         IN  IF s2.timeRemaining <= 0
             THEN play([stop([s2 EXCEPT !.timeRemaining = 0, !.gameOver = TRUE],
                             "timeWarning")
                          EXCEPT !.isTimeWarning = FALSE], "explosion")
             ELSE s2
    ELSE s

\* ---------------------------------------------------------------- physics
IsObject(tile) == tile = BOULDER \/ tile = DIAMOND

\* The scan visits y = height-2 .. 0 and, in each row, x = width-2 .. 0.
ScanLength == (GRID_HEIGHT - 1) * (GRID_WIDTH - 1)
ScanX(i) == GRID_WIDTH - 2 - (i % (GRID_WIDTH - 1))
\* the rows taken top to bottom
ScanY_TopDown(i) == i \div (GRID_WIDTH - 1)
ScanY(i) == GRID_HEIGHT - 2 - (i \div (GRID_WIDTH - 1))

\* no grace period
GraceOver_Always(s, t) == TRUE

\* performance.now() - lastPlayerMoveTime >= PHYSICS_UPDATE_INTERVAL
GraceOver(s, t) == t - s.lastPlayerMoveTime >= PHYSICS_UPDATE_INTERVAL

\* Fall without the crush check
Fall_NoCrushCheck(s, x, y, t) ==
    LET currentTile == getTile(s.grid, x, y)
        s1 == [s EXCEPT !.grid = setTile(setTile(@, x, y, EMPTY), x, y + 1, currentTile)]
    IN  IF currentTile = BOULDER /\ getTile(s1.grid, x, y + 2) # EMPTY
        THEN play(s1, "boulder") ELSE s1

\* Fall leaving the object in its old cell as well
Fall_Duplicates(s, x, y, t) ==
    LET currentTile == getTile(s.grid, x, y)
        s1 == [s EXCEPT !.grid = setTile(@, x, y + 1, currentTile)]
        s2 == IF currentTile = BOULDER /\ getTile(s1.grid, x, y + 2) # EMPTY
              THEN play(s1, "boulder") ELSE s1
    IN  IF s2.playerX = x /\ s2.playerY = y + 2 /\ GraceOver(s2, t)
        THEN startExplosion(s2, t) ELSE s2

Fall(s, x, y, t) ==
    LET currentTile == getTile(s.grid, x, y)
        s1 == [s EXCEPT !.grid = setTile(setTile(@, x, y, EMPTY), x, y + 1, currentTile)]
        s2 == IF currentTile = BOULDER /\ getTile(s1.grid, x, y + 2) # EMPTY
              THEN play(s1, "boulder") ELSE s1
    IN  IF s2.playerX = x /\ s2.playerY = y + 2 /\ GraceOver(s2, t)
        THEN startExplosion(s2, t) ELSE s2

\* CanFall without the test for the player below
CanFall_OntoPlayer(s, x, y) ==
    getTile(s.grid, x, y + 1) = EMPTY

CanFall(s, x, y) ==
    /\ getTile(s.grid, x, y + 1) = EMPTY
    /\ ~(x = s.playerX /\ y + 1 = s.playerY)

CanRoll(s, x, y, d) ==
    /\ getTile(s.grid, x, y + 1) # EMPTY
    /\ getTile(s.grid, x + d, y) = EMPTY
    /\ getTile(s.grid, x + d, y + 1) = EMPTY
    /\ ~(x + d = s.playerX /\ y = s.playerY)
    /\ ~(x + d = s.playerX /\ y + 1 = s.playerY)

\* Roll moving the Boulder to the side cell instead of the diagonal one
Roll_Sideways(s, x, y, d) ==
    [s EXCEPT !.grid = setTile(setTile(@, x, y, EMPTY), x + d, y, BOULDER)]

Roll(s, x, y, d) ==
    [s EXCEPT !.grid = setTile(setTile(@, x, y, EMPTY), x + d, y + 1, BOULDER)]

\* The body with the right roll tried before the left one
PhysicsCell_RightFirst(s, x, y, t) ==
    LET currentTile == getTile(s.grid, x, y)
    IN  IF CanFall(s, x, y) THEN Fall(s, x, y, t)
        ELSE IF currentTile = BOULDER
             THEN IF CanRoll(s, x, y, 1) THEN Roll(s, x, y, 1)
                  ELSE IF CanRoll(s, x, y, -1) THEN Roll(s, x, y, -1)
                  ELSE s
             ELSE s

\* The body with the rolls applied to Diamonds as well
PhysicsCell_DiamondRolls(s, x, y, t) ==
    LET currentTile == getTile(s.grid, x, y)
        rolled(d) == [s EXCEPT !.grid = setTile(setTile(@, x, y, EMPTY),
                                                x + d, y + 1, currentTile)]
    IN  IF CanFall(s, x, y) THEN Fall(s, x, y, t)
        ELSE IF CanRoll(s, x, y, -1) THEN rolled(-1)
        ELSE IF CanRoll(s, x, y, 1) THEN rolled(1)
        ELSE s

\* The body of the two loops for a cell that holds a Boulder or a Diamond.
PhysicsCell(s, x, y, t) ==
    LET currentTile == getTile(s.grid, x, y)
    IN  IF CanFall(s, x, y) THEN Fall(s, x, y, t)
        ELSE IF currentTile = BOULDER
             THEN IF CanRoll(s, x, y, -1) THEN Roll(s, x, y, -1)
                  ELSE IF CanRoll(s, x, y, 1) THEN Roll(s, x, y, 1)
                  ELSE s
             ELSE s

\* The two loops, from the i-th cell of the scan on.
RECURSIVE Scan(_, _, _)
Scan(s, i, t) ==
    IF i >= ScanLength THEN s
    ELSE IF IsObject(getTile(s.grid, ScanX(i), ScanY(i)))
         THEN Scan(PhysicsCell(s, ScanX(i), ScanY(i), t), i + 1, t)
         ELSE Scan(s, i + 1, t)

\* The turns of the scan, from its i-th cell on, of the objects that cannot
\* fall: <<x, y, tile, left, right>> for the object of (x, y), with the
\* results of the left and of the right roll test at its turn.
RECURSIVE Turns(_, _, _)
Turns(s, i, t) ==
    IF i >= ScanLength THEN {}
    ELSE LET x == ScanX(i)
             y == ScanY(i)
         IN  IF IsObject(getTile(s.grid, x, y))
             THEN (IF CanFall(s, x, y) THEN {}
                   ELSE {<<x, y, getTile(s.grid, x, y),
                           CanRoll(s, x, y, -1), CanRoll(s, x, y, 1)>>})
                  \cup Turns(PhysicsCell(s, x, y, t), i + 1, t)
             ELSE Turns(s, i + 1, t)

\* The cells that hold at their turn a Boulder which cannot fall and passes
\* both the left and the right roll test.
TiedOf(turns) ==
    {<<c[1], c[2]>> : c \in {c \in turns : c[3] = BOULDER /\ c[4] /\ c[5]}}

Tied(s, i, t) == TiedOf(Turns(s, i, t))

\* The cells that hold at their turn a Diamond which cannot fall and passes
\* the left or the right roll test.
PerchedOf(turns) ==
    {<<c[1], c[2]>> : c \in {c \in turns : c[3] = DIAMOND /\ (c[4] \/ c[5])}}

Perched(s, i, t) == PerchedOf(Turns(s, i, t))

\* The rolls: <<x, y, d>> for a Boulder of (x, y) that cannot fall at its
\* turn and passes the roll test of side d, the left one first.
RolledOf(turns) ==
    {<<c[1], c[2], IF c[4] THEN -1 ELSE 1>> :
        c \in {c \in turns : c[3] = BOULDER /\ (c[4] \/ c[5])}}

Rolled(s, i, t) == RolledOf(Turns(s, i, t))

\* updatePhysics() with performance.now() = t
updatePhysics(s, t) ==
    LET s1 == Scan(s, 0, t)
        tileAtPlayer == getTile(s1.grid, s1.playerX, s1.playerY)
    IN  IF (tileAtPlayer = BOULDER \/ tileAtPlayer = DIAMOND) /\ GraceOver(s1, t)
        THEN startExplosion(s1, t) ELSE s1

\* ------------------------------------------------------------- frame loop
PhysicsDue(s, timestamp) == timestamp - s.lastPhysicsUpdate >= PHYSICS_UPDATE_INTERVAL

UpdateAnimation(s, timestamp) ==
    IF timestamp - s.lastAnimUpdate >= ANIM_FRAME_DURATION
    THEN [s EXCEPT !.playerAnimFrame = IF @ > 0 THEN (@ + 1) % 4 ELSE @,
                   !.lastAnimUpdate = timestamp]
    ELSE s

\* gameLoop up to the physics section: the state updatePhysics starts from
BeforePhysics(s, timestamp) ==
    UpdateAnimation(
        updateExplosion(updateTime([s EXCEPT !.lastTime = timestamp], timestamp),
                        timestamp),
        timestamp)

\* gameLoop(timestamp), with performance.now() = clock while it runs
gameLoop(s, timestamp, clock) ==
    LET s1 == BeforePhysics(s, timestamp)
    IN  IF PhysicsDue(s1, timestamp)
        THEN [updatePhysics(s1, clock) EXCEPT !.lastPhysicsUpdate = timestamp]
        ELSE s1

\* ------------------------------------------------------------------ state
VARIABLES
    grid, playerX, playerY, playerAnimFrame, playerFacingLeft,
    lastTime, lastPlayerMoveTime, lastAnimUpdate, lastPhysicsUpdate,
    timeRemaining, isTimeWarning, lastTimeUpdate,
    gameOver, gameWon, score, diamondsCollected,
    explosionRadius, explosionFrame, lastExplosionUpdate, explosionX, explosionY,
    exitX, exitY, exitRevealed, exitAppearTime,
    cameraX, cameraY,
    DIAMONDS_REQUIRED,   \* the readonly field: no handler assigns it
    keys,   \* the number of keydown events handled so far
    now,    \* the clock: the last reading of performance.now()
    ev      \* the last event: its kind, its key and what it met

vars == <<grid, playerX, playerY, playerAnimFrame, playerFacingLeft,
          lastTime, lastPlayerMoveTime, lastAnimUpdate, lastPhysicsUpdate,
          timeRemaining, isTimeWarning, lastTimeUpdate,
          gameOver, gameWon, score, diamondsCollected,
          explosionRadius, explosionFrame, lastExplosionUpdate, explosionX, explosionY,
          exitX, exitY, exitRevealed, exitAppearTime,
          cameraX, cameraY, DIAMONDS_REQUIRED, keys, now, ev>>

\* The Game object as a record of its fields; cues collects the SoundManager
\* calls of the handler that runs on it.
This ==
    [grid |-> grid, playerX |-> playerX, playerY |-> playerY,
     playerAnimFrame |-> playerAnimFrame, playerFacingLeft |-> playerFacingLeft,
     lastTime |-> lastTime, lastPlayerMoveTime |-> lastPlayerMoveTime,
     lastAnimUpdate |-> lastAnimUpdate, lastPhysicsUpdate |-> lastPhysicsUpdate,
     timeRemaining |-> timeRemaining, isTimeWarning |-> isTimeWarning,
     lastTimeUpdate |-> lastTimeUpdate,
     gameOver |-> gameOver, gameWon |-> gameWon, score |-> score,
     diamondsCollected |-> diamondsCollected,
     explosionRadius |-> explosionRadius, explosionFrame |-> explosionFrame,
     lastExplosionUpdate |-> lastExplosionUpdate,
     explosionX |-> explosionX, explosionY |-> explosionY,
     exitX |-> exitX, exitY |-> exitY, exitRevealed |-> exitRevealed,
     exitAppearTime |-> exitAppearTime,
     cameraX |-> cameraX, cameraY |-> cameraY,
     DIAMONDS_REQUIRED |-> DIAMONDS_REQUIRED, cues |-> <<>>]

Becomes(r) ==
    /\ grid' = r.grid /\ playerX' = r.playerX /\ playerY' = r.playerY
    /\ playerAnimFrame' = r.playerAnimFrame /\ playerFacingLeft' = r.playerFacingLeft
    /\ lastTime' = r.lastTime /\ lastPlayerMoveTime' = r.lastPlayerMoveTime
    /\ lastAnimUpdate' = r.lastAnimUpdate /\ lastPhysicsUpdate' = r.lastPhysicsUpdate
    /\ timeRemaining' = r.timeRemaining /\ isTimeWarning' = r.isTimeWarning
    /\ lastTimeUpdate' = r.lastTimeUpdate
    /\ gameOver' = r.gameOver /\ gameWon' = r.gameWon /\ score' = r.score
    /\ diamondsCollected' = r.diamondsCollected
    /\ explosionRadius' = r.explosionRadius /\ explosionFrame' = r.explosionFrame
    /\ lastExplosionUpdate' = r.lastExplosionUpdate
    /\ explosionX' = r.explosionX /\ explosionY' = r.explosionY
    /\ exitX' = r.exitX /\ exitY' = r.exitY /\ exitRevealed' = r.exitRevealed
    /\ exitAppearTime' = r.exitAppearTime
    /\ cameraX' = r.cameraX /\ cameraY' = r.cameraY
    /\ DIAMONDS_REQUIRED' = r.DIAMONDS_REQUIRED

Is(r) ==
    /\ grid = r.grid /\ playerX = r.playerX /\ playerY = r.playerY
    /\ playerAnimFrame = r.playerAnimFrame /\ playerFacingLeft = r.playerFacingLeft
    /\ lastTime = r.lastTime /\ lastPlayerMoveTime = r.lastPlayerMoveTime
    /\ lastAnimUpdate = r.lastAnimUpdate /\ lastPhysicsUpdate = r.lastPhysicsUpdate
    /\ timeRemaining = r.timeRemaining /\ isTimeWarning = r.isTimeWarning
    /\ lastTimeUpdate = r.lastTimeUpdate
    /\ gameOver = r.gameOver /\ gameWon = r.gameWon /\ score = r.score
    /\ diamondsCollected = r.diamondsCollected
    /\ explosionRadius = r.explosionRadius /\ explosionFrame = r.explosionFrame
    /\ lastExplosionUpdate = r.lastExplosionUpdate
    /\ explosionX = r.explosionX /\ explosionY = r.explosionY
    /\ exitX = r.exitX /\ exitY = r.exitY /\ exitRevealed = r.exitRevealed
    /\ exitAppearTime = r.exitAppearTime
    /\ cameraX = r.cameraX /\ cameraY = r.cameraY
    /\ DIAMONDS_REQUIRED = r.DIAMONDS_REQUIRED

\* The field initialisers and the constructor, before initializeLevel.
Constructed ==
    [grid |-> newGrid, playerX |-> 1, playerY |-> 1,
     playerAnimFrame |-> 0, playerFacingLeft |-> FALSE,
     lastTime |-> 0, lastPlayerMoveTime |-> 0,
     lastAnimUpdate |-> 0, lastPhysicsUpdate |-> 0,
     timeRemaining |-> TIME_LIMIT, isTimeWarning |-> FALSE, lastTimeUpdate |-> 0,
     gameOver |-> FALSE, gameWon |-> FALSE, score |-> 0, diamondsCollected |-> 0,
     explosionRadius |-> 0, explosionFrame |-> 0, lastExplosionUpdate |-> 0,
     explosionX |-> 0, explosionY |-> 0,
     exitX |-> -1, exitY |-> -1, exitRevealed |-> FALSE, exitAppearTime |-> 0,
     cameraX |-> Whole(0), cameraY |-> Whole(0),
     DIAMONDS_REQUIRED |-> DiamondQuota, cues |-> <<>>]

\* What the last event was and what it met: for a keydown the tile it aimed
\* at and whether it revealed the exit; for a frame whether the physics tick
\* ran, how many objects could fall at its start, whether one of them was
\* two cells above the player, whether the grace period was over, and the
\* cells whose Boulder could roll either way at its turn (tied) and those
\* whose Diamond rested where a Boulder would have rolled (perched).  Once
\* the game has ended: whether the warning was active when gameOver or gameWon
\* was assigned (warned) and how many stop('timeWarning') calls have been issued from the handler
\* that ended it on (stops).  since is the timestamp of the last frame that
\* decremented timeRemaining or, if the level started after it, of the last
\* frame before the level started; started tells whether startExplosion has
\* taken effect since the level started, rolled which Boulders the tick rolled
\* and to which side; at is the timestamp of the last frame.
StopCalls(r) ==
    Cardinality({i \in 1 .. Len(r.cues) : r.cues[i] = <<"stop", "timeWarning">>})

Ended(s) == s.gameOver \/ s.gameWon

EndStops(r) ==
    IF ~Ended(r) THEN 0
    ELSE (IF Ended(This) THEN ev.stops ELSE 0) + StopCalls(r)

\* ending is the state in which the handler assigns gameOver or gameWon
EndWarned(ending, r) ==
    IF ~Ended(r) THEN FALSE
    ELSE IF Ended(This) THEN ev.warned ELSE ending.isTimeWarning

Falling(s) ==
    {c \in Cells : IsObject(s.grid[c]) /\ CanFall(s, c[1], c[2])}

KeyEvent(kind, key, r) ==
    [kind |-> kind, key |-> key,
     target |-> getTile(grid, newX(This, key), newY(This, key)),
     revealed |-> ~exitRevealed /\ r.exitRevealed,
     ran |-> FALSE, fell |-> 0, above |-> FALSE, grace |-> FALSE, tied |-> {}, perched |-> {},
     stops |-> EndStops(r), warned |-> EndWarned(This, r),
     since |-> IF kind = "reset" THEN ev.at ELSE ev.since,
     started |-> kind # "reset" /\ ev.started,
     rolled |-> {}, at |-> ev.at]

FrameEvent(mid, timestamp, clock, r) ==
    LET ran == PhysicsDue(mid, timestamp)
        falling == Falling(mid)
        turns == Turns(mid, 0, clock)
        expires == /\ ~Ended(This)
                   /\ timestamp - lastTimeUpdate >= 1000
                   /\ timeRemaining - 1 <= 0
        ending == IF expires THEN Counted(This, timestamp) ELSE mid
    IN  [kind |-> "frame", key |-> "", target |-> "", revealed |-> FALSE,
         ran |-> ran,
         fell |-> IF ran THEN Cardinality(falling) ELSE 0,
         above |-> ran /\ <<mid.playerX, mid.playerY - 2>> \in falling,
         grace |-> ran /\ GraceOver(mid, clock),
         tied |-> IF ran THEN TiedOf(turns) ELSE {},
         perched |-> IF ran THEN PerchedOf(turns) ELSE {},
         stops |-> EndStops(r), warned |-> EndWarned(ending, r),
         since |-> IF r.timeRemaining < timeRemaining THEN timestamp ELSE ev.since,
         started |-> ev.started \/ (~mid.gameOver /\ r.gameOver),
         rolled |-> IF ran THEN RolledOf(turns) ELSE {},
         at |-> timestamp]

Init ==
    \E o \in Outcomes(Constructed) :
        /\ Is(initializeLevel(Constructed, o))
        /\ now = 0
        /\ keys = 0
        /\ ev = [kind |-> "init", key |-> "", target |-> "", revealed |-> FALSE,
                 ran |-> FALSE, fell |-> 0, above |-> FALSE, grace |-> FALSE, tied |-> {}, perched |-> {},
                 stops |-> 0, warned |-> FALSE, since |-> 0, started |-> FALSE, rolled |-> {},
                 at |-> 0]

\* ---------------------------------------------------------------- actions
\* A keydown event whose handler reads the clock as t and then as u, while
\* fewer than budget keydown events have been handled.
KeyAt(kind, key, t, u, budget) ==
    /\ keys < budget
    /\ keys' = keys + 1
    /\ \E r \in handleInput(This, key, t, u) :
        /\ Becomes(r)
        /\ now' = now
        /\ ev' = KeyEvent(kind, key, r)

\* A keydown event, handled lag ms after the last reading of the clock: its
\* handler reads the same time twice.
KeyPress(kind, key, lags, budget) ==
    \E lag \in lags : KeyAt(kind, key, now + lag, now + lag, budget)

KeyDown(kind, key) == KeyPress(kind, key, KeyLags, MaxKeys)

Move == \E key \in Arrows : KeyDown("move", key)
OtherKey == KeyDown("other", "Other")
Reset == \E key \in ResetKeys : KeyDown("reset", key)
Mute == \E key \in MuteKeys : KeyDown("mute", key)

\* requestAnimationFrame delivers a frame with the given timestamp, whose
\* callback reads performance.now() = clock.
FrameAt(timestamp, clock) ==
    \E mid \in {BeforePhysics(This, timestamp)} :
    \E r \in {gameLoop(This, timestamp, clock)} :
        /\ Becomes(r)
        /\ now' = clock
        /\ keys' = keys
        /\ ev' = FrameEvent(mid, timestamp, clock, r)

Frame ==
    /\ now + FramePeriod <= MaxTime
    /\ FrameAt(now + FramePeriod, now + FramePeriod)

Next == Move \/ OtherKey \/ Reset \/ Mute \/ Frame

Spec == Init /\ [][Next]_vars

\* ---------------------------------------------------------------- session
\* A whole session of one level, from its start to its end by exit, crush or
\* timer expiry and some frames beyond: the frames arrive one second apart,
\* the arrow keys between them.
SessionLayouts ==
    { [px |-> 3, py |-> 3, boulders |-> {<<3, 1>>},
       keep |-> Interior \ {<<3, 1>>, <<1, 2>>},
       diamonds |-> {<<1, 1>>, <<1, 4>>}] }

SessionOutcomes == {o \in SessionLayouts : IsOutcome(Constructed, o)}

SessionInit ==
    \E o \in SessionOutcomes :
        /\ Is(initializeLevel(Constructed, o))
        /\ now = 0
        /\ keys = 0
        /\ ev = [kind |-> "init", key |-> "", target |-> "", revealed |-> FALSE,
                 ran |-> FALSE, fell |-> 0, above |-> FALSE, grace |-> FALSE, tied |-> {}, perched |-> {},
                 stops |-> 0, warned |-> FALSE, since |-> 0, started |-> FALSE, rolled |-> {},
                 at |-> 0]

SessionMove == \E key \in Arrows : KeyPress("move", key, {0}, MaxSessionKeys)

SessionFrame ==
    /\ now + SessionFramePeriod <= MaxSessionTime
    /\ FrameAt(now + SessionFramePeriod, now + SessionFramePeriod)

SessionNext == SessionMove \/ SessionFrame

Session == SessionInit /\ [][SessionNext]_vars

\* ------------------------------------------------------------ timer runs
\* The countdown under frames that arrive at uneven intervals, with a few
\* moves and resets between them.
TimerMove == \E key \in Arrows : KeyPress("move", key, {0}, MaxTimerKeys)

TimerReset == \E key \in ResetKeys : KeyPress("reset", key, {0}, MaxTimerKeys)

TimerFrame ==
    \E gap \in TimerGaps :
        /\ now + gap <= MaxTimerTime
        /\ FrameAt(now + gap, now + gap)

TimerNext == TimerMove \/ TimerReset \/ TimerFrame

Timer == Init /\ [][TimerNext]_vars

\* ------------------------------------------------------------- grid calls
\* Calls of Grid.setTile with coordinates inside the grid and up to
\* GridMargin cells outside it, on the grid of a generated level.
GridSet ==
    /\ keys < MaxGridCalls
    /\ \E x \in -GridMargin .. GRID_WIDTH - 1 + GridMargin :
       \E y \in -GridMargin .. GRID_HEIGHT - 1 + GridMargin :
       \E t \in TileType :
          /\ grid' = setTile(grid, x, y, t)
          /\ ev' = [kind |-> "setTile", x |-> x, y |-> y, tile |-> t]
    /\ keys' = keys + 1
    /\ UNCHANGED <<playerX, playerY, playerAnimFrame, playerFacingLeft,
                   lastTime, lastPlayerMoveTime, lastAnimUpdate, lastPhysicsUpdate,
                   timeRemaining, isTimeWarning, lastTimeUpdate,
                   gameOver, gameWon, score, diamondsCollected,
                   explosionRadius, explosionFrame, lastExplosionUpdate,
                   explosionX, explosionY,
                   exitX, exitY, exitRevealed, exitAppearTime,
                   cameraX, cameraY, DIAMONDS_REQUIRED, now>>

GridNext == GridSet

GridCalls == Init /\ [][GridNext]_vars

\* --------------------------------------------------------- explosion runs
\* A level filled with Dirt whose Boulder crushes the idle player at the
\* first physics tick; the frames arrive a few tens of ms apart, so the
\* explosion is seen step by step, with a key or a reset in between.
BlastLayouts ==
    { [px |-> 3, py |-> 3, boulders |-> {<<3, 1>>}, keep |-> {},
       diamonds |-> {<<5, 2>>, <<1, 4>>}] }

BlastOutcomes == {o \in BlastLayouts : IsOutcome(Constructed, o)}

BlastInit ==
    \E o \in BlastOutcomes :
        /\ Is(initializeLevel(Constructed, o))
        /\ now = 0
        /\ keys = 0
        /\ ev = [kind |-> "init", key |-> "", target |-> "", revealed |-> FALSE,
                 ran |-> FALSE, fell |-> 0, above |-> FALSE, grace |-> FALSE, tied |-> {}, perched |-> {},
                 stops |-> 0, warned |-> FALSE, since |-> 0, started |-> FALSE, rolled |-> {},
                 at |-> 0]

BlastMove == \E key \in Arrows : KeyPress("move", key, {0}, MaxBlastKeys)

BlastReset == \E key \in ResetKeys : KeyPress("reset", key, {0}, MaxBlastKeys)

BlastFrame ==
    \E gap \in BlastGaps :
        /\ now + gap <= MaxBlastTime
        /\ FrameAt(now + gap, now + gap)

BlastNext == BlastMove \/ BlastReset \/ BlastFrame

Blast == BlastInit /\ [][BlastNext]_vars

\* ------------------------------------------------------------- quota runs
\* The Game whose quota is LargeQuota, on a level with three Diamonds in
\* the row below the spawn box: arrow keys, resets and the frames of Spec.
QuotaGame == [Constructed EXCEPT !.DIAMONDS_REQUIRED = LargeQuota]

QuotaLayouts ==
    { [px |-> 4, py |-> 2, boulders |-> {<<1, 1>>}, keep |-> {},
       diamonds |-> {<<3, 4>>, <<4, 4>>, <<5, 4>>}] }

QuotaOutcomes == {o \in QuotaLayouts : IsOutcome(QuotaGame, o)}

QuotaInit ==
    \E o \in QuotaOutcomes :
        /\ Is(initializeLevel(QuotaGame, o))
        /\ now = 0
        /\ keys = 0
        /\ ev = [kind |-> "init", key |-> "", target |-> "", revealed |-> FALSE,
                 ran |-> FALSE, fell |-> 0, above |-> FALSE, grace |-> FALSE, tied |-> {}, perched |-> {},
                 stops |-> 0, warned |-> FALSE, since |-> 0, started |-> FALSE, rolled |-> {},
                 at |-> 0]

QuotaMove == \E key \in Arrows : KeyPress("move", key, {0}, MaxQuotaKeys)

QuotaReset == \E key \in ResetKeys : KeyPress("reset", key, {0}, MaxQuotaKeys)

QuotaFrame ==
    /\ now + FramePeriod <= MaxTime
    /\ FrameAt(now + FramePeriod, now + FramePeriod)

QuotaNext == QuotaMove \/ QuotaReset \/ QuotaFrame

Quota == QuotaInit /\ [][QuotaNext]_vars

\* -------------------------------------------------------------- turn runs
\* A level whose dirt/boulder pass leaves all cells but two unwritten: a
\* Boulder rests on Dirt in column 2 and the Diamond lies in column 1, so
\* that the exit appears in column 4.  Arrow keys and the frames of Spec.
TurnLayouts ==
    { [px |-> 4, py |-> 2, boulders |-> {<<2, 3>>},
       keep |-> Interior \ {<<2, 3>>, <<2, 4>>},
       diamonds |-> {<<1, 3>>}] }

TurnOutcomes == {o \in TurnLayouts : IsOutcome(Constructed, o)}

TurnInit ==
    \E o \in TurnOutcomes :
        /\ Is(initializeLevel(Constructed, o))
        /\ now = 0
        /\ keys = 0
        /\ ev = [kind |-> "init", key |-> "", target |-> "", revealed |-> FALSE,
                 ran |-> FALSE, fell |-> 0, above |-> FALSE, grace |-> FALSE, tied |-> {}, perched |-> {},
                 stops |-> 0, warned |-> FALSE, since |-> 0, started |-> FALSE, rolled |-> {},
                 at |-> 0]

TurnMove == \E key \in Arrows : KeyPress("move", key, {0}, MaxTurnKeys)

TurnFrame ==
    /\ now + FramePeriod <= MaxTime
    /\ FrameAt(now + FramePeriod, now + FramePeriod)

TurnNext == TurnMove \/ TurnFrame

Turn == TurnInit /\ [][TurnNext]_vars

\* --------------------------------------------------------------- restarts
\* The level whose Boulder crushes the idle player at the first frame,
\* restarted by key r and played on to the expiry of the new timer.
RestartMove == \E key \in Arrows : KeyPress("move", key, {0}, MaxRestartKeys)

RestartReset == \E key \in ResetKeys : KeyPress("reset", key, {0}, MaxRestartKeys)

RestartFrame ==
    /\ now + RestartFramePeriod <= MaxRestartTime
    /\ FrameAt(now + RestartFramePeriod, now + RestartFramePeriod)

RestartNext == RestartMove \/ RestartReset \/ RestartFrame

Restart == SessionInit /\ [][RestartNext]_vars

\* ------------------------------------------------- runs with fair frames
\* The explosion level with frames that keep arriving: requestAnimationFrame
\* is called again at the end of every gameLoop, so a frame that can come
\* does come.
BurstMove == \E key \in Arrows : KeyPress("move", key, {0}, MaxBurstKeys)

BurstFrame ==
    \E gap \in BlastGaps :
        /\ now + gap <= MaxBurstTime
        /\ FrameAt(now + gap, now + gap)

BurstNext == BurstMove \/ BurstFrame

\* The clock advances in frames only: a step of BurstNext that advances it
\* is a BurstFrame step, and BurstTick is enabled exactly when BurstFrame
\* is, so weak fairness of BurstTick on now is weak fairness of BurstFrame.
BurstTick ==
    \E gap \in BlastGaps : now + gap <= MaxBurstTime /\ now' = now + gap

Burst == BlastInit /\ [][BurstNext]_vars /\ WF_now(BurstTick)

\* The countdown of a level with frames that keep arriving.
CountdownMove == \E key \in Arrows : KeyPress("move", key, {0}, MaxCountdownKeys)

CountdownFrame ==
    \E gap \in TimerGaps :
        /\ now + gap <= MaxCountdownTime
        /\ FrameAt(now + gap, now + gap)

CountdownNext == CountdownMove \/ CountdownFrame

\* As BurstTick: weak fairness of CountdownTick on now is weak fairness of
\* CountdownFrame.
CountdownTick ==
    \E gap \in TimerGaps : now + gap <= MaxCountdownTime /\ now' = now + gap

Countdown == Init /\ [][CountdownNext]_vars /\ WF_now(CountdownTick)

\* ----------------------------------------------------------- physics runs
\* The physics ticks of a level: the frames of Spec, whose callbacks read
\* the clock some ClockLags ms after their timestamps, and arrow keys only
\* between them, whose handlers read the clock twice, ReadGaps ms apart.
PhysicsMove ==
    \E key \in Arrows : \E lag \in KeyLags : \E gap \in ReadGaps :
        /\ gap <= lag
        /\ KeyAt("move", key, now + lag - gap, now + lag, MaxPhysicsKeys)

PhysicsFrame ==
    \E lag \in ClockLags :
        /\ now + FramePeriod <= MaxTime
        /\ FrameAt(now + FramePeriod, now + FramePeriod + lag)

PhysicsNext == PhysicsMove \/ PhysicsFrame

Physics == Init /\ [][PhysicsNext]_vars

\* -------------------------------------------------------------- play runs
\* The keys of Spec, handled at the timestamps of its frames.
PlayKey(kind, key) == KeyPress(kind, key, {0}, MaxPlayKeys)

PlayMove == \E key \in Arrows : PlayKey("move", key)
PlayOther == PlayKey("other", "Other")
PlayReset == \E key \in ResetKeys : PlayKey("reset", key)
PlayMute == \E key \in MuteKeys : PlayKey("mute", key)

PlayNext == PlayMove \/ PlayOther \/ PlayReset \/ PlayMute \/ Frame

Play == Init /\ [][PlayNext]_vars

TypeOK ==
    /\ grid \in [Cells -> TileType]
    /\ playerX \in 0 .. GRID_WIDTH - 1 /\ playerY \in 0 .. GRID_HEIGHT - 1
    /\ score \in Nat /\ diamondsCollected \in Nat
    /\ gameOver \in BOOLEAN /\ gameWon \in BOOLEAN /\ exitRevealed \in BOOLEAN

\* ----------------------------------------------------------------- claims
\* In a step that is a frame, the state its physics tick starts from.
Mid == BeforePhysics(This, ev'.at)
\* The step is a frame whose physics tick runs.
TickStep == ev'.kind = "frame" /\ ev'.ran
\* The step is the keydown of an arrow key while the game is active.
ArrowStep == ev'.kind = "move" /\ ~gameOver /\ ~gameWon

\* In a tick step, the age of the player's last move when the tick runs.
LastMoveAge == now' - lastPlayerMoveTime

Killed == gameOver' /\ explosionX' = playerX' /\ explosionY' = playerY'

\* C1 as stated: a tick that starts with a Boulder directly above a player
\* whose last move is at least one physics interval old ends with
\* gameOver = true and the explosion origin on the player.
C1_BoulderDirectlyAboveKills ==
    [][ ( /\ TickStep
          /\ getTile(Mid.grid, Mid.playerX, Mid.playerY - 1) = BOULDER
          /\ LastMoveAge >= PHYSICS_UPDATE_INTERVAL )
        => Killed ]_vars

\* C1 amended: a tick that starts, the game not over, with a Boulder two
\* cells above the player and the cell between them Empty, the player's
\* last move at least one physics interval old, ends with gameOver = true
\* and the explosion origin on the player.
C1_BoulderFallingOntoPlayerKills ==
    [][ ( /\ TickStep
          /\ ~Mid.gameOver
          /\ getTile(Mid.grid, Mid.playerX, Mid.playerY - 2) = BOULDER
          /\ getTile(Mid.grid, Mid.playerX, Mid.playerY - 1) = EMPTY
          /\ LastMoveAge >= PHYSICS_UPDATE_INTERVAL )
        => Killed ]_vars

C1_Witness ==
    /\ ev.kind = "frame" /\ ev.above /\ ev.grace
    /\ getTile(grid, playerX, playerY - 1) = BOULDER
    /\ gameOver /\ explosionX = playerX /\ explosionY = playerY

\* C3: every Boulder or Diamond that starts a tick with an Empty cell below
\* it that is not the player's cell ends the tick one row lower in its
\* column; and every object a tick ends with is where one of its kind
\* started, or one row below it (straight, or diagonally for a Boulder).
C3_FallsExactlyOneRow ==
    [][ TickStep =>
          /\ \A c \in Falling(Mid) : grid'[<<c[1], c[2] + 1>>] = Mid.grid[c]
          /\ \A c \in Cells :
                IsObject(grid'[c]) =>
                  \/ Mid.grid[c] = grid'[c]
                  \/ getTile(Mid.grid, c[1], c[2] - 1) = grid'[c]
                  \/ /\ grid'[c] = BOULDER
                     /\ \/ getTile(Mid.grid, c[1] - 1, c[2] - 1) = BOULDER
                        \/ getTile(Mid.grid, c[1] + 1, c[2] - 1) = BOULDER ]_vars

C3_Witness == ev.kind = "frame" /\ ev.ran /\ ev.fell > 0

\* C4: a tick that runs while the player's last move is less than one
\* physics interval old does not end the game.
C4_GraceSpares ==
    [][ (TickStep /\ LastMoveAge < PHYSICS_UPDATE_INTERVAL /\ ~Mid.gameOver)
        => ~gameOver' ]_vars

C4_Witness ==
    /\ ev.kind = "frame" /\ ev.above /\ ~ev.grace
    /\ IsObject(getTile(grid, playerX, playerY - 1))
    /\ ~gameOver

\* C5: when a Boulder or Diamond falls into the cell directly above the
\* player during a tick and the player's last move is at least one physics
\* interval old, gameOver is true when the tick ends.
C5_StationaryKilled ==
    [][ ( /\ TickStep
          /\ <<Mid.playerX, Mid.playerY - 2>> \in Falling(Mid)
          /\ grid'[<<playerX', playerY' - 1>>] = Mid.grid[<<Mid.playerX, Mid.playerY - 2>>]
          /\ LastMoveAge >= PHYSICS_UPDATE_INTERVAL )
        => gameOver' ]_vars

C5_Witness ==
    /\ ev.kind = "frame" /\ ev.above /\ ev.grace
    /\ getTile(grid, playerX, playerY - 1) = DIAMOND
    /\ gameOver

\* C2: after a legal horizontal move, a Boulder one step beyond the player's
\* new cell with an Empty cell beyond it is moved one cell further; in every
\* other case the cell beyond the player keeps its tile.
C2_PushesBoulder ==
    [][ ( /\ ArrowStep
          /\ ev'.key \in {"ArrowLeft", "ArrowRight"}
          /\ playerX' = newX(This, ev'.key) /\ playerY' = playerY )
        => LET d == IF ev'.key = "ArrowLeft" THEN -1 ELSE 1
               b1 == playerX' + d
               b2 == playerX' + 2 * d
           IN  IF getTile(grid, b1, playerY) = BOULDER /\ getTile(grid, b2, playerY) = EMPTY
               THEN /\ getTile(grid', b1, playerY) = EMPTY
                    /\ getTile(grid', b2, playerY) = BOULDER
               ELSE getTile(grid', b1, playerY) = getTile(grid, b1, playerY) ]_vars

\* The tile an arrow key aims at.
Target == getTile(grid, newX(This, ev'.key), newY(This, ev'.key))
Arrived == playerX' = newX(This, ev'.key) /\ playerY' = newY(This, ev'.key)

\* C6: an arrow key whose destination is not Empty, Dirt, Diamond or, with
\* the exit revealed, Exit moves nothing: the player and the grid stay.
C6_OnlyLegalDestinations ==
    [][ ( /\ ArrowStep
          /\ Target \notin {EMPTY, DIRT, DIAMOND}
          /\ ~(Target = EXIT /\ exitRevealed) )
        => (playerX' = playerX /\ playerY' = playerY /\ grid' = grid) ]_vars

\* C7: a move onto a Diamond adds POINTS_PER_DIAMOND to score and 1 to
\* diamondsCollected, a move onto Empty or Dirt leaves both; either clears
\* the destination and puts the player on it; score is always
\* POINTS_PER_DIAMOND * diamondsCollected.
C7_Scoring ==
    /\ [](score = POINTS_PER_DIAMOND * diamondsCollected)
    /\ [][ (ArrowStep /\ Target \in {EMPTY, DIRT, DIAMOND})
           => /\ Arrived
              /\ getTile(grid', playerX', playerY') = EMPTY
              /\ score' = score + (IF Target = DIAMOND THEN 100 ELSE 0)
              /\ diamondsCollected' = diamondsCollected + (IF Target = DIAMOND THEN 1 ELSE 0)
       ]_vars

C7_Witness ==
    ev.kind = "move" /\ ev.target = DIAMOND /\ score = 100 /\ diamondsCollected = 1

\* C8: in every state the exit is revealed exactly when the quota of
\* diamonds is collected: not while the count is below the quota, and from
\* the move that brings the count to the quota on.
C8_RevealedIffQuota == exitRevealed <=> diamondsCollected >= DIAMONDS_REQUIRED

\* the move that collected the second Diamond of a quota of two revealed
\* the exit, the move that collected the first one having left it hidden
C8_Witness ==
    /\ DIAMONDS_REQUIRED > 1
    /\ ev.kind = "move" /\ ev.target = DIAMOND /\ ev.revealed
    /\ exitRevealed /\ diamondsCollected = DIAMONDS_REQUIRED

\* C9 as stated: after the move that reveals the exit, the exit is outside
\* the 2-cell box of the cell the player then occupies and has no Boulder
\* directly above it.
C9_ExitAwayFromPlayer ==
    ev.revealed =>
        /\ Abs(exitX - playerX) > 2 \/ Abs(exitY - playerY) > 2
        /\ getTile(grid, exitX, exitY - 1) # BOULDER

\* C9 amended: after the move that reveals the exit, the exit is outside the
\* 2-cell box of the cell the player left (so not within one cell of the
\* cell the player then occupies) and has no Boulder directly above it.
C9_ExitAwayFromOldPosition ==
    [][ (ArrowStep /\ ev'.revealed)
        => /\ Abs(exitX' - playerX) > 2 \/ Abs(exitY' - playerY) > 2
           /\ Abs(exitX' - playerX') > 1 \/ Abs(exitY' - playerY') > 1
           /\ getTile(grid', exitX', exitY' - 1) # BOULDER
           /\ getTile(grid', exitX', exitY') = EXIT ]_vars

C9_Witness ==
    ev.revealed /\ getTile(grid, exitX, exitY) = EXIT /\ Abs(exitX - playerX) = 2

\* C10: once the exit is revealed, no event but a reset runs the reveal
\* again: the exit keeps its coordinates and its appear time, and no cell
\* becomes an Exit tile.
C10_RevealOnce ==
    [][ (exitRevealed /\ ev'.kind # "reset")
        => /\ exitRevealed'
           /\ exitX' = exitX /\ exitY' = exitY
           /\ exitAppearTime' = exitAppearTime
           /\ \A c \in Cells : grid'[c] = EXIT => grid[c] = EXIT ]_vars

C10_Witness ==
    /\ ev.kind = "move" /\ ev.target = DIAMOND /\ ~ev.revealed
    /\ exitRevealed /\ diamondsCollected > DIAMONDS_REQUIRED

\* Every field of the game but gameWon is left as it was.
SameButWon ==
    UNCHANGED <<grid, playerX, playerY, playerAnimFrame, playerFacingLeft,
                lastTime, lastPlayerMoveTime, lastAnimUpdate, lastPhysicsUpdate,
                timeRemaining, isTimeWarning, lastTimeUpdate,
                gameOver, score, diamondsCollected,
                explosionRadius, explosionFrame, lastExplosionUpdate,
                explosionX, explosionY,
                exitX, exitY, exitRevealed, exitAppearTime, cameraX, cameraY,
                DIAMONDS_REQUIRED>>

\* C11 as stated: an arrow key whose destination is the Exit tile while the
\* exit is revealed sets gameWon and changes nothing else: the player's
\* coordinates, the facing direction, the animation phase, the last-move
\* timestamp, the camera and every grid cell (the Exit tile too) stay, and
\* so do the score, the timer, the exit and the explosion fields.
C11_WinChangesNothingElse ==
    [][ (ArrowStep /\ Target = EXIT /\ exitRevealed)
        => (gameWon' /\ SameButWon) ]_vars

\* C12: while gameOver or gameWon is true an arrow key changes no field of
\* the game.
C12_IgnoredWhenEnded ==
    [][ (ev'.kind = "move" /\ (gameOver \/ gameWon))
        => (SameButWon /\ gameWon' = gameWon) ]_vars

\* An ArrowLeft that left the player facing right: it was ignored.
C12_Witness ==
    /\ ev.kind = "move" /\ ev.key = "ArrowLeft" /\ ~playerFacingLeft
    /\ gameWon /\ ~gameOver

\* C13: gameOver and gameWon are never both true.
C13_WonAndLostExclusive == ~(gameOver /\ gameWon)

\* The step is a frame.
FrameStep == ev'.kind = "frame"

\* C14: while no key has been handled and the game is active, the remaining
\* time is TIME_LIMIT minus the whole seconds elapsed since the level
\* started, however the frames were spaced.
C14_TracksElapsedSeconds ==
    (keys = 0 /\ ~gameOver /\ ~gameWon) => timeRemaining = TIME_LIMIT - (now \div 1000)

\* C15: a frame that decrements the remaining time comes at least 1000 ms
\* after the frame of the previous decrement and at least 1000 ms after the
\* start of the level (construction or reset).
C15_DecrementsASecondApart ==
    [][ (FrameStep /\ timeRemaining' < timeRemaining) => ev'.at - ev.since >= 1000 ]_vars

\* C16: while the game is active the warning flag is set exactly when the
\* remaining time is at most TIME_WARNING_THRESHOLD; it goes from false to
\* true only in the frame whose decrement brings the remaining time from
\* above the threshold to it, and the remaining time rises only by a reset,
\* so it does so at most once in a level.
C16_WarningAtThreshold ==
    /\ []((~gameOver /\ ~gameWon)
          => (isTimeWarning <=> timeRemaining <= TIME_WARNING_THRESHOLD))
    /\ [][ /\ (~isTimeWarning /\ isTimeWarning')
              => /\ FrameStep
                 /\ timeRemaining > TIME_WARNING_THRESHOLD
                 /\ timeRemaining' = timeRemaining - 1
                 /\ timeRemaining' = TIME_WARNING_THRESHOLD
           /\ ev'.kind # "reset" => timeRemaining' <= timeRemaining ]_vars

C16_Witness ==
    /\ ev.kind = "frame" /\ ~gameOver /\ ~gameWon
    /\ isTimeWarning /\ timeRemaining = TIME_WARNING_THRESHOLD /\ ev.since = ev.at

\* C17: the remaining time is always in 0 .. TIME_LIMIT; the decrement that
\* brings it to 0 sets gameOver and clears the warning flag, and whenever it
\* is 0 the game is over.
C17_ExpiryEndsGame ==
    /\ [](timeRemaining \in 0 .. TIME_LIMIT /\ (timeRemaining = 0 => gameOver))
    /\ [][ (timeRemaining > 0 /\ timeRemaining' = 0)
           => (FrameStep /\ timeRemaining = 1 /\ gameOver' /\ ~isTimeWarning') ]_vars

C17_Witness ==
    /\ ev.kind = "frame" /\ ev.since = ev.at /\ ev.warned
    /\ timeRemaining = 0 /\ gameOver /\ ~isTimeWarning

\* C18: a frame delivered while the game is over or won leaves the remaining
\* time as it was, and no step of a level makes the remaining time larger.
C18_FrozenWhenEnded ==
    [][ /\ (FrameStep /\ (gameOver \/ gameWon)) => timeRemaining' = timeRemaining
        /\ timeRemaining' <= timeRemaining ]_vars

\* Won, and still time left after more than TIME_LIMIT seconds of frames.
C18_Witness ==
    /\ ev.kind = "frame" /\ gameWon /\ ~gameOver
    /\ now > TIME_LIMIT * 1000 /\ timeRemaining > 0

\* C19: when the game has ended while the warning was active,
\* stop('timeWarning') has been issued at most once since, and exactly once
\* as soon as the warning flag is cleared.
C19_WarningStoppedOnce ==
    ((gameOver \/ gameWon) /\ ev.warned)
        => (ev.stops <= 1 /\ (~isTimeWarning => ev.stops = 1))

\* C20: the frame in which the timer expires leaves the explosion as
\* startExplosion does: frame counter and radius 0, origin on the player.
C20_ExpiryStartsExplosion ==
    [][ (FrameStep /\ timeRemaining > 0 /\ timeRemaining' = 0)
        => /\ explosionX' = playerX' /\ explosionY' = playerY'
           /\ explosionRadius' = 0 /\ explosionFrame' = 0 ]_vars

\* The value the camera takes on an axis of length dim seen through a
\* viewport of length view when it is snapped to a player at p.
Snap(p, view, dim) ==
    LET want == p - (view \div 2)
    IN  IF want < 0 THEN 0 ELSE IF want > dim - view THEN dim - view ELSE want

\* C21: a reset, from whatever state, leaves score 0, no diamonds collected,
\* the game neither over nor won, the exit unrevealed, the whole time limit
\* remaining, the warning off, the player on a spawn cell of
\* [2, W-3] x [2, H-3] whose 3x3 neighbourhood is Empty, and the camera
\* snapped to that cell.
C21_ResetYieldsFreshSession ==
    [][ev'.kind = "reset" =>
          /\ score' = 0 /\ diamondsCollected' = 0
          /\ ~gameOver' /\ ~gameWon' /\ ~exitRevealed'
          /\ timeRemaining' = TIME_LIMIT /\ ~isTimeWarning'
          /\ playerX' \in 2 .. GRID_WIDTH - 3
          /\ playerY' \in 2 .. GRID_HEIGHT - 3
          /\ \A dx \in -1 .. 1 : \A dy \in -1 .. 1 :
                grid'[<<playerX' + dx, playerY' + dy>>] = EMPTY
          /\ cameraX' = Whole(Snap(playerX', VIEWPORT_WIDTH, GRID_WIDTH))
          /\ cameraY' = Whole(Snap(playerY', VIEWPORT_HEIGHT, GRID_HEIGHT))]_vars

\* a reset of a game that a crush had ended (the explosion origin is still set)
C21_Witness ==
    /\ ev.kind = "reset"
    /\ explosionX > 0
    /\ lastExplosionUpdate > 0
    /\ ~gameOver /\ score = 0

\* C22: a cell holds Exit only if the exit is revealed and the cell is
\* (exitX, exitY): no Exit tile of the previous level survives a reset.
C22_NoStaleExit ==
    \A c \in Cells : grid[c] = EXIT => exitRevealed /\ c = <<exitX, exitY>>

\* C23: outside [0,width) x [0,height) getTile returns Wall and setTile
\* changes no cell; inside, getTile after setTile(x,y,t) returns t and no
\* other cell changes.
C23_GridBounds ==
    /\ [](\A x \in -GridMargin .. GRID_WIDTH - 1 + GridMargin :
          \A y \in -GridMargin .. GRID_HEIGHT - 1 + GridMargin :
             (x < 0 \/ x > GRID_WIDTH - 1 \/ y < 0 \/ y > GRID_HEIGHT - 1)
                => getTile(grid, x, y) = WALL)
    /\ [][ev'.kind = "setTile" =>
            IF ev'.x \in 0 .. GRID_WIDTH - 1 /\ ev'.y \in 0 .. GRID_HEIGHT - 1
            THEN /\ getTile(grid', ev'.x, ev'.y) = ev'.tile
                 /\ \A c \in Cells : c # <<ev'.x, ev'.y>> => grid'[c] = grid[c]
            ELSE /\ DOMAIN grid' = Cells
                 /\ \A c \in Cells : grid'[c] = grid[c]]_vars

\* a setTile call one cell beyond the bottom-right corner, with a tile that
\* no cell of the border holds
C23_Witness ==
    /\ ev.kind = "setTile"
    /\ ev.x = GRID_WIDTH /\ ev.y = GRID_HEIGHT
    /\ ev.tile = DIAMOND

\* C24: a Boulder that cannot fall and passes both the left and the right
\* roll test at its turn of the scan ends the tick at the left-below cell,
\* never at the right-below cell.
C24_RollsLeftOnTie ==
    [][TickStep =>
          \A c \in Tied(Mid, 0, now') :
              /\ grid'[<<c[1] - 1, c[2] + 1>>] = BOULDER
              /\ grid'[<<c[1] + 1, c[2] + 1>>] # BOULDER
              /\ grid'[c] = EMPTY]_vars

\* a tick in which a Boulder could roll either way, and where it lies after
C24_Witness ==
    /\ ev.kind = "frame" /\ ev.ran
    /\ \E c \in ev.tied : grid[<<c[1] - 1, c[2] + 1>>] = BOULDER

\* C25: a Diamond never rolls: in a physics tick every Diamond stays in its
\* cell or moves to the cell directly below, so each column keeps its
\* Diamonds.
C25_DiamondsNeverRoll ==
    [][TickStep =>
          /\ \A c \in Cells :
                grid'[c] = DIAMOND =>
                    \/ Mid.grid[c] = DIAMOND
                    \/ getTile(Mid.grid, c[1], c[2] - 1) = DIAMOND
          /\ \A c \in Cells :
                Mid.grid[c] = DIAMOND =>
                    \/ grid'[c] = DIAMOND
                    \/ getTile(grid', c[1], c[2] + 1) = DIAMOND
          /\ \A x \in 0 .. GRID_WIDTH - 1 :
                Cardinality({y \in 0 .. GRID_HEIGHT - 1 : grid'[<<x, y>>] = DIAMOND})
                  = Cardinality({y \in 0 .. GRID_HEIGHT - 1 : Mid.grid[<<x, y>>] = DIAMOND})]_vars

\* a tick that met a Diamond resting where a Boulder would have rolled, and
\* left it in its cell
C25_Witness ==
    /\ ev.kind = "frame" /\ ev.ran
    /\ \E c \in ev.perched : grid[c] = DIAMOND

\* C26: once the game is over, a death trigger in a later physics tick
\* leaves the explosion origin, frame counter, radius and last-update
\* timestamp as they were: the tick does not restart the explosion.
C26_StartIsIdempotent ==
    [][(TickStep /\ Mid.gameOver) =>
          /\ explosionX' = Mid.explosionX
          /\ explosionY' = Mid.explosionY
          /\ explosionFrame' = Mid.explosionFrame
          /\ explosionRadius' = Mid.explosionRadius
          /\ lastExplosionUpdate' = Mid.lastExplosionUpdate
          /\ gameOver']_vars

\* a Boulder fell onto the cell above a long-idle player of a game already
\* over, and the explosion origin is not the player's cell
C26_Witness ==
    /\ ev.kind = "frame" /\ ev.ran
    /\ ev.above /\ ev.grace
    /\ gameOver
    /\ grid[<<playerX, playerY - 1>>] = BOULDER
    /\ ~(explosionX = playerX /\ explosionY = playerY)

\* In a step that is a frame, the states its explosion update starts from
\* and ends in.
BeforeExplosion == updateTime([This EXCEPT !.lastTime = ev'.at], ev'.at)
AfterExplosion == updateExplosion(BeforeExplosion, ev'.at)
\* The step is a frame whose explosion update advances the explosion.
ExplosionStep ==
    FrameStep /\ AfterExplosion.explosionFrame # BeforeExplosion.explosionFrame
\* The squared distance of cell c from the explosion origin of s.
FromOrigin2(s, c) ==
    (c[1] - s.explosionX) * (c[1] - s.explosionX)
        + (c[2] - s.explosionY) * (c[2] - s.explosionY)

\* C27: after an explosion step whose radius r is below the max radius,
\* every non-Wall cell within distance r of the origin is Empty; the step
\* changes no cell farther than r from the origin and no Wall cell.
C27_ClearsTheDisc ==
    [][(ExplosionStep /\ AfterExplosion.explosionRadius < explosionMaxRadius) =>
          LET r == AfterExplosion.explosionRadius
          IN  /\ \A c \in Cells :
                    (FromOrigin2(AfterExplosion, c) <= r * r
                        /\ BeforeExplosion.grid[c] # WALL)
                      => AfterExplosion.grid[c] = EMPTY
              /\ \A c \in Cells :
                    AfterExplosion.grid[c] # BeforeExplosion.grid[c]
                      => /\ FromOrigin2(AfterExplosion, c) <= r * r
                         /\ BeforeExplosion.grid[c] # WALL
              /\ ~ev'.ran => grid' = AfterExplosion.grid]_vars

\* the step to radius 2 has just cleared the Dirt two cells left of the
\* origin, left the Dirt beside it, which is farther, and the Wall two
\* cells below
C27_Witness ==
    /\ ev.kind = "frame" /\ gameOver
    /\ explosionFrame = 4 /\ explosionRadius = 2
    /\ lastExplosionUpdate = now
    /\ grid[<<explosionX - 2, explosionY>>] = EMPTY
    /\ grid[<<explosionX - 2, explosionY - 1>>] = DIRT
    /\ grid[<<explosionX, explosionY + 2>>] = WALL

\* C28: the explosion radius is floor(frame / 2), between 0 and the max
\* radius, and the frame counter is at most twice the max radius; the
\* counter advances by one at a time, in a frame that comes at least
\* EXPLOSION_DURATION ms after the previous explosion update.
C28_RadiusFollowsFrame ==
    /\ [](/\ explosionRadius = explosionFrame \div 2
          /\ explosionRadius >= 0 /\ explosionRadius <= explosionMaxRadius
          /\ explosionFrame >= 0 /\ explosionFrame <= 2 * explosionMaxRadius)
    /\ [][explosionFrame' # explosionFrame =>
            \/ explosionFrame' = 0
            \/ /\ FrameStep
               /\ explosionFrame' = explosionFrame + 1
               /\ ev'.at - lastExplosionUpdate >= EXPLOSION_DURATION]_vars

\* a frame that came 25 ms after an explosion step and left the counter alone
C28_Witness ==
    /\ ev.kind = "frame" /\ gameOver
    /\ explosionFrame \in 1 .. 2 * explosionMaxRadius - 1
    /\ now - lastExplosionUpdate = 25

\* C29: once the radius has reached the max radius, a frame changes no
\* explosion field and its explosion update changes no cell, unless the
\* frame starts a new explosion.
C29_DormantAtMaxRadius ==
    [][(FrameStep /\ explosionRadius >= explosionMaxRadius
          /\ (gameOver \/ ~gameOver')) =>
          /\ AfterExplosion.grid = BeforeExplosion.grid
          /\ explosionX' = explosionX /\ explosionY' = explosionY
          /\ explosionFrame' = explosionFrame
          /\ explosionRadius' = explosionRadius
          /\ lastExplosionUpdate' = lastExplosionUpdate]_vars

\* frames still arrive 100 ms and more after the step that reached the max
\* radius
C29_Witness ==
    /\ ev.kind = "frame" /\ gameOver
    /\ explosionRadius = explosionMaxRadius
    /\ now - lastExplosionUpdate >= 100

\* C30: at level start, after every move and after every reset, and so at
\* every frame, the camera is on each axis the snap target of the player
\* clamped to [0, gridDim - viewportDim].
C30_CameraSnapped ==
    /\ cameraX = Whole(Snap(playerX, VIEWPORT_WIDTH, GRID_WIDTH))
    /\ cameraY = Whole(Snap(playerY, VIEWPORT_HEIGHT, GRID_HEIGHT))
    /\ cameraX \in {Whole(k) : k \in 0 .. GRID_WIDTH - VIEWPORT_WIDTH}
    /\ cameraY \in {Whole(k) : k \in 0 .. GRID_HEIGHT - VIEWPORT_HEIGHT}

\* a frame after the player moved into the top-right corner of the cave,
\* where the target is clamped from above on x and from below on y
C30_Witness ==
    /\ ev.kind = "frame"
    /\ lastPlayerMoveTime > 0
    /\ playerX - (VIEWPORT_WIDTH \div 2) > GRID_WIDTH - VIEWPORT_WIDTH
    /\ playerY - (VIEWPORT_HEIGHT \div 2) < 0
    /\ cameraX = Whole(GRID_WIDTH - VIEWPORT_WIDTH)
    /\ cameraY = Whole(0)

\* C32: after a reset, the explosion origin, frame and radius left over
\* from the previous session never cause a cell of the new level to be
\* cleared: while no death of the new level has started an explosion, the
\* explosion update of a frame changes no cell.
C32_NoStaleExplosion ==
    [][(FrameStep /\ ~ev.started /\ explosionX > 0) =>
          AfterExplosion.grid = BeforeExplosion.grid]_vars

\* C33: an arrow key whose destination is a Wall or a Boulder leaves the
\* whole state unchanged, the facing direction included.
C33_BlockedIntentChangesNothing ==
    [][(ArrowStep /\ ev'.target \in {WALL, BOULDER}) => This' = This]_vars

\* C34: a keydown changes the last-move timestamp or the animation phase
\* only when it is an arrow key that moves the player to an adjacent cell,
\* and a key that is neither an arrow nor m nor r changes nothing.
C34_OnlyMovesRefresh ==
    [][ev'.kind \in {"move", "other", "mute"} =>
          /\ (lastPlayerMoveTime' # lastPlayerMoveTime
                \/ playerAnimFrame' # playerAnimFrame)
               => /\ ev'.kind = "move"
                  /\ Abs(playerX' - playerX) + Abs(playerY' - playerY) = 1
          /\ ev'.kind = "other" => This' = This]_vars

\* The scan from its i-th cell on changes the grid, at the turn of a
\* Boulder, in one of three ways only: not at all, by a fall to the cell
\* below, or by a roll to a cell diagonally below, and then the cell below
\* was not Empty, the side cell and the diagonal cell were Empty and the
\* player stood on neither.
RECURSIVE BoulderStepsLegal(_, _, _)
BoulderStepsLegal(s, i, t) ==
    IF i >= ScanLength THEN TRUE
    ELSE LET x == ScanX(i)
             y == ScanY(i)
             n == IF IsObject(getTile(s.grid, x, y)) THEN PhysicsCell(s, x, y, t) ELSE s
             changed == {c \in Cells : n.grid[c] # s.grid[c]}
         IN  /\ (s.grid[<<x, y>>] = BOULDER /\ changed # {}) =>
                   \/ /\ changed = {<<x, y>>, <<x, y + 1>>}
                      /\ n.grid[<<x, y>>] = EMPTY
                      /\ n.grid[<<x, y + 1>>] = BOULDER
                   \/ \E d \in {-1, 1} :
                      /\ changed = {<<x, y>>, <<x + d, y + 1>>}
                      /\ n.grid[<<x, y>>] = EMPTY
                      /\ n.grid[<<x + d, y + 1>>] = BOULDER
                      /\ s.grid[<<x, y + 1>>] # EMPTY
                      /\ s.grid[<<x + d, y>>] = EMPTY
                      /\ s.grid[<<x + d, y + 1>>] = EMPTY
                      /\ <<s.playerX, s.playerY>> \notin {<<x + d, y>>, <<x + d, y + 1>>}
             /\ BoulderStepsLegal(n, i + 1, t)

\* C35: in a physics tick a Boulder changes column only by one diagonal
\* step to (x-1,y+1) or (x+1,y+1), taken when the cell below is not Empty,
\* the side and the diagonal cell are Empty and the player is on neither;
\* no Boulder ends the tick in a cell that had no Boulder in it, above it
\* or diagonally above it.
C35_BouldersRollDiagonally ==
    [][TickStep =>
          /\ BoulderStepsLegal(Mid, 0, now')
          /\ \A c \in Cells :
                grid'[c] = BOULDER =>
                    \E d \in {-1, 0, 1} :
                        \/ getTile(Mid.grid, c[1] + d, c[2] - 1) = BOULDER
                        \/ (d = 0 /\ Mid.grid[c] = BOULDER)]_vars

\* a tick in which a Boulder that could roll to the right only did so
C35_Witness ==
    /\ ev.kind = "frame" /\ ev.ran
    /\ \E r \in ev.rolled :
          /\ r[3] = 1
          /\ grid[<<r[1] + 1, r[2] + 1>>] = BOULDER
          /\ grid[<<r[1], r[2]>>] = EMPTY

\* C36: the tile at the player's coordinates is always Empty.
C36_PlayerCellEmpty ==
    grid[<<playerX, playerY>>] = EMPTY

\* a tick has left a Boulder or a Diamond resting on the cell above the
\* player, whose own cell it did not enter
C36_Witness ==
    /\ ev.kind = "frame" /\ ev.ran
    /\ lastPlayerMoveTime > 0
    /\ grid[<<playerX, playerY - 1>>] \in {BOULDER, DIAMOND}
    /\ grid[<<playerX, playerY>>] = EMPTY

\* C37: every cell of the outer ring is Wall and the player is strictly
\* inside the ring.
C37_RingOfWalls ==
    /\ \A c \in Cells :
          (c[1] = 0 \/ c[1] = GRID_WIDTH - 1 \/ c[2] = 0 \/ c[2] = GRID_HEIGHT - 1)
            => grid[c] = WALL
    /\ playerX >= 1 /\ playerX <= GRID_WIDTH - 2
    /\ playerY >= 1 /\ playerY <= GRID_HEIGHT - 2

\* an arrow key was pressed against the ring by a player standing next to it
C37_Witness ==
    /\ ev.kind = "move" /\ ev.target = WALL
    /\ ~gameOver /\ ~gameWon
    /\ (playerX = 1 \/ playerX = GRID_WIDTH - 2
           \/ playerY = 1 \/ playerY = GRID_HEIGHT - 2)

\* The number of cells of grid g that hold tile.
Count(g, tile) == Cardinality({c \in Cells : g[c] = tile})

\* C38: a physics tick leaves the number of Boulders and the number of
\* Diamonds in the grid as they were and changes no Dirt, Wall or Exit
\* cell.
C38_TickConservesObjects ==
    [][TickStep =>
          /\ Count(grid', BOULDER) = Count(Mid.grid, BOULDER)
          /\ Count(grid', DIAMOND) = Count(Mid.grid, DIAMOND)
          /\ \A c \in Cells :
                (Mid.grid[c] \in {DIRT, WALL, EXIT} \/ grid'[c] \in {DIRT, WALL, EXIT})
                  => grid'[c] = Mid.grid[c]]_vars

\* a tick in which an object fell and a Boulder rolled, with the exit in
\* the grid
C38_Witness ==
    /\ ev.kind = "frame" /\ ev.ran
    /\ ev.fell > 0 /\ ev.rolled # {}
    /\ Count(grid, EXIT) > 0

\* C39: after a crush, with frames that keep arriving and no reset, the
\* explosion radius reaches the max radius, at the 2 * max-th explosion
\* step, and stays there.  (The frames of a run end at MaxBurstTime: the
\* crush is one that leaves the time of the slowest explosion.)
C39_ExplosionCompletes ==
    /\ (gameOver /\ ev.started /\ now + ExplosionSpan <= MaxBurstTime)
          ~> (explosionRadius = explosionMaxRadius)
    /\ [](explosionRadius = explosionMaxRadius
            => explosionFrame = 2 * explosionMaxRadius)
    /\ [][explosionRadius = explosionMaxRadius
            => (explosionRadius' = explosionRadius
                  /\ explosionFrame' = explosionFrame)]_vars

\* the explosion of a crush has reached the max radius at its sixth step
C39_Witness ==
    /\ gameOver /\ ev.started
    /\ explosionFrame = 2 * explosionMaxRadius
    /\ explosionRadius = explosionMaxRadius
    /\ lastExplosionUpdate + ExplosionStepSpan <= MaxBurstTime

\* C40: with frames that keep arriving, a session that is neither won nor
\* ended by a crush (nor reset) comes to remaining time 0 and gameOver.
C40_TimerExpires ==
    <>((gameOver /\ timeRemaining = 0) \/ gameWon \/ ev.started)

\* the timer has expired at the latest time the frames allow, the game
\* neither won nor ended by a crush
C40_Witness ==
    /\ gameOver /\ timeRemaining = 0
    /\ ~gameWon /\ ~ev.started
    /\ lastTimeUpdate = MaxCountdownTime

=============================================================================
